---- MODULE Spec2Model ----
(***************************************************************************)
(* Model of the cross-source record-linkage engine of travel-deal-engine   *)
(* (src/scripts/data_processor.py, driven by src/main.py).                 *)
(*                                                                         *)
(* Representation                                                          *)
(*   text    a sequence of one-character strings                           *)
(*   float   an integer number of hundredths (2.0 km = 200, 90.00 = 9000); *)
(*           the scorer computes on binary64 numbers, see Round            *)
(*   cell    a spreadsheet cell: [t |-> "nan"], a number or a text         *)
(***************************************************************************)
EXTENDS Integers, Sequences, FiniteSets, TLC

\* ------------------------------------------------------------------------
\* Text helpers
\* ------------------------------------------------------------------------

Max(a, b) == IF a >= b THEN a ELSE b

Min(a, b) == IF a <= b THEN a ELSE b

Abs(a) == IF a >= 0 THEN a ELSE 0 - a

LowerLetters ==
    <<"a","b","c","d","e","f","g","h","i","j","k","l","m",
      "n","o","p","q","r","s","t","u","v","w","x","y","z">>

UpperLetters ==
    <<"A","B","C","D","E","F","G","H","I","J","K","L","M",
      "N","O","P","Q","R","S","T","U","V","W","X","Y","Z">>

Digits == <<"0","1","2","3","4","5","6","7","8","9">>

Range(s) == {s[i] : i \in 1..Len(s)}

IndexOf(c, s) == CHOOSE i \in 1..Len(s) : s[i] = c

IsSpace(c) == c = " "

IsDigit(c) == c \in Range(Digits)

IsAlnum(c) == c \in Range(LowerLetters) \cup Range(UpperLetters) \cup Range(Digits)

\* \w of the re module: letters, digits and the underscore
IsWordChar(c) == IsAlnum(c) \/ c = "_"

\* str.lower() on one character
LowerChar(c) ==
    IF c \in Range(UpperLetters) THEN LowerLetters[IndexOf(c, UpperLetters)] ELSE c

Lower(s) == [i \in 1..Len(s) |-> LowerChar(s[i])]

RECURSIVE LStrip(_)
LStrip(s) == IF s # <<>> /\ IsSpace(s[1]) THEN LStrip(Tail(s)) ELSE s

RECURSIVE RStrip(_)
RStrip(s) ==
    IF s # <<>> /\ IsSpace(s[Len(s)]) THEN RStrip(SubSeq(s, 1, Len(s) - 1)) ELSE s

\* str.strip()
Strip(s) == LStrip(RStrip(s))

\* str.split(): the maximal runs of non-space characters
RECURSIVE SplitFrom(_, _, _)
SplitFrom(s, cur, acc) ==
    IF s = <<>> THEN (IF cur = <<>> THEN acc ELSE Append(acc, cur))
    ELSE IF IsSpace(s[1])
         THEN SplitFrom(Tail(s), <<>>, IF cur = <<>> THEN acc ELSE Append(acc, cur))
         ELSE SplitFrom(Tail(s), Append(cur, s[1]), acc)

Split(s) == SplitFrom(s, <<>>, <<>>)

\* ' '.join(tokens)
RECURSIVE Join(_)
Join(toks) ==
    IF toks = <<>> THEN <<>>
    ELSE IF Len(toks) = 1 THEN toks[1]
    ELSE toks[1] \o <<" ">> \o Join(Tail(toks))

\* code point order of the characters the model uses: space, digits, upper, lower
CharOrd(c) ==
    IF c \in Range(Digits) THEN 10 + IndexOf(c, Digits)
    ELSE IF c \in Range(UpperLetters) THEN 30 + IndexOf(c, UpperLetters)
    ELSE IF c \in Range(LowerLetters) THEN 60 + IndexOf(c, LowerLetters)
    ELSE IF c = "_" THEN 59
    ELSE 0

\* s < t in Python's string order
RECURSIVE StrLess(_, _)
StrLess(s, t) ==
    IF t = <<>> THEN FALSE
    ELSE IF s = <<>> THEN TRUE
    ELSE IF s[1] = t[1] THEN StrLess(Tail(s), Tail(t))
    ELSE CharOrd(s[1]) < CharOrd(t[1])

\* sorted(tokens)
RECURSIVE InsertToken(_, _)
InsertToken(sorted, tok) ==
    IF sorted = <<>> THEN <<tok>>
    ELSE IF StrLess(tok, sorted[1]) THEN <<tok>> \o sorted
    ELSE <<sorted[1]>> \o InsertToken(Tail(sorted), tok)

RECURSIVE SortTokens(_)
SortTokens(toks) ==
    IF toks = <<>> THEN <<>>
    ELSE InsertToken(SortTokens(SubSeq(toks, 1, Len(toks) - 1)), toks[Len(toks)])

\* ------------------------------------------------------------------------
\* normalize_HOTEL_NAME
\* ------------------------------------------------------------------------

\* a missing name (NaN cell): not a str
NoName == <<"<NaN>">>

noise_words ==
    << <<"h","o","t","e","l">>,
       <<"r","e","s","o","r","t">>,
       <<"s","p","a">>,
       <<"s","u","i","t","e","s">>,
       <<"a","p","a","r","t","m","e","n","t","s">>,
       <<"i","n","n">>,
       <<"b","o","u","t","i","q","u","e">>,
       <<"l","u","x","u","r","y">>,
       <<"g","r","a","n","d">>,
       <<"t","h","e">> >>

\* \bword\b matches at position i of s
WordAt(s, word, i) ==
    /\ i + Len(word) - 1 <= Len(s)
    /\ SubSeq(s, i, i + Len(word) - 1) = word
    /\ (i = 1 \/ ~IsWordChar(s[i - 1]))
    /\ (i + Len(word) > Len(s) \/ ~IsWordChar(s[i + Len(word)]))

\* re.sub(rf'\b{word}\b', '', s): left to right, matches do not overlap
RECURSIVE RemoveWordFrom(_, _, _)
RemoveWordFrom(s, word, i) ==
    IF i > Len(s) THEN <<>>
    ELSE IF WordAt(s, word, i) THEN RemoveWordFrom(s, word, i + Len(word))
    ELSE <<s[i]>> \o RemoveWordFrom(s, word, i + 1)

RemoveWord(s, word) == RemoveWordFrom(s, word, 1)

RECURSIVE RemoveNoise(_, _)
RemoveNoise(s, k) ==
    IF k > Len(noise_words) THEN s
    ELSE RemoveNoise(RemoveWord(s, noise_words[k]), k + 1)

\* re.sub(r'[^a-zA-Z0-9\s]', '', s)
StripSpecial(s) == SelectSeq(s, LAMBDA c : IsAlnum(c) \/ IsSpace(c))

\* normalize_HOTEL_NAME that returns what the removals leave, also when that
\* is nothing
normalize_HOTEL_NAMENoFallback(name) ==
    IF name = NoName \/ Strip(name) = <<>> THEN <<>>
    ELSE Join(Split(StripSpecial(RemoveNoise(Strip(Lower(name)), 1))))

normalize_HOTEL_NAME(name) ==
    IF name = NoName \/ Strip(name) = <<>> THEN <<>>
    ELSE LET original_clean == Strip(Lower(name))
             processed_name == StripSpecial(RemoveNoise(original_clean, 1))
             final_name     == Join(Split(processed_name))
         IN  IF final_name # <<>> THEN final_name ELSE original_clean

\* ------------------------------------------------------------------------
\* fuzz.token_sort_ratio, as process.extract applies it
\* ------------------------------------------------------------------------

\* utils.full_process: non-word characters become spaces, lower case, strip
full_process(s) ==
    Strip(Lower([i \in 1..Len(s) |-> IF IsWordChar(s[i]) THEN s[i] ELSE " "]))

\* one row of the longest-common-subsequence table, built left to right:
\* acc holds the cells of the columns 1..Len(acc) of the row of character c
RECURSIVE LcsRow(_, _, _, _)
LcsRow(prev, c, t, acc) ==
    IF Len(acc) >= Len(t) THEN acc
    ELSE LET j    == Len(acc) + 1
             left == IF j = 1 THEN 0 ELSE acc[j - 1]
             diag == IF j = 1 THEN 0 ELSE prev[j - 1]
             cell == IF c = t[j] THEN diag + 1 ELSE Max(prev[j], left)
         IN  LcsRow(prev, c, t, Append(acc, cell))

RECURSIVE LcsRows(_, _, _, _)
LcsRows(s, t, i, prev) ==
    IF i > Len(s) \/ Len(prev) # Len(t) THEN prev
    ELSE LcsRows(s, t, i + 1, LcsRow(prev, s[i], t, <<>>))

\* length of the longest common subsequence of s and t
Lcs(s, t) ==
    IF s = <<>> \/ t = <<>> THEN 0
    ELSE LcsRows(s, t, 1, [j \in 1..Len(t) |-> 0])[Len(t)]

\* round(n / d) of Python 3: halves go to the even neighbour
RoundDiv(n, d) ==
    LET q == n \div d
        r == n % d
    IN  IF 2 * r > d THEN q + 1
        ELSE IF 2 * r = d THEN q + (q % 2)
        ELSE q

\* int(round(100 * (1 - indel_distance / (len1 + len2)))), where the indel
\* distance is len1 + len2 - 2 * lcs; 0 when a string is empty
IndelRatio(t1, t2) ==
    IF t1 = <<>> \/ t2 = <<>> THEN 0
    ELSE RoundDiv(200 * Lcs(t1, t2), Len(t1) + Len(t2))

\* the processed strings are compared with their tokens sorted
token_sort_ratio(s1, s2) ==
    IndelRatio(Join(SortTokens(Split(full_process(s1)))),
               Join(SortTokens(Split(full_process(s2)))))

\* ------------------------------------------------------------------------
\* Cells and extract_numeric
\* ------------------------------------------------------------------------

\* hundredths per unit: a float f of the program is the integer f * Scale
Scale == 100

NaN == [t |-> "nan", v |-> 0, s |-> <<>>]

Num(n) == [t |-> "num", v |-> n, s |-> <<>>]

Str(txt) == [t |-> "str", v |-> 0, s |-> txt]

DigitVal(c) == IndexOf(c, Digits) - 1

\* the value of a run of digits
RECURSIVE IntOf(_)
IntOf(ds) ==
    IF ds = <<>> THEN 0
    ELSE 10 * IntOf(SubSeq(ds, 1, Len(ds) - 1)) + DigitVal(ds[Len(ds)])

\* the longest run of digits of s that starts at position i
RECURSIVE DigitRun(_, _)
DigitRun(s, i) ==
    IF i > Len(s) \/ ~IsDigit(s[i]) THEN <<>>
    ELSE <<s[i]>> \o DigitRun(s, i + 1)

\* float() of a match of \d+\.?\d* : whole part, and up to two decimals
FloatOf(whole, frac) ==
    IntOf(whole) * Scale
    + (IF Len(frac) >= 1 THEN 10 * DigitVal(frac[1]) ELSE 0)
    + (IF Len(frac) >= 2 THEN DigitVal(frac[2]) ELSE 0)

\* re.findall(r'(\d+\.?\d*)', s)[0] as a float, when there is a match
FirstNumber(s) ==
    LET i     == CHOOSE k \in 1..Len(s) :
                     IsDigit(s[k]) /\ \A m \in 1..(k - 1) : ~IsDigit(s[m])
        whole == DigitRun(s, i)
        dot   == i + Len(whole)
        frac  == IF dot <= Len(s) /\ s[dot] = "." THEN DigitRun(s, dot + 1) ELSE <<>>
    IN  FloatOf(whole, frac)

\* extract_numeric that leaves the commas in the text
extract_numericKeepCommas(val) ==
    IF val.t = "nan" THEN 0
    ELSE IF val.t = "num" THEN val.v
    ELSE LET clean_val == Strip(val.s)
         IN  IF \E k \in 1..Len(clean_val) : IsDigit(clean_val[k])
             THEN FirstNumber(clean_val)
             ELSE 0

extract_numeric(val) ==
    IF val.t = "nan" THEN 0
    ELSE IF val.t = "num" THEN val.v
    ELSE LET clean_val == Strip(SelectSeq(val.s, LAMBDA c : c # ","))
         IN  IF \E k \in 1..Len(clean_val) : IsDigit(clean_val[k])
             THEN FirstNumber(clean_val)
             ELSE 0

\* ------------------------------------------------------------------------
\* Input tables
\* ------------------------------------------------------------------------

\* most rows of the primary (Booking) and of the secondary (Agoda) table
MaxA == 2

MaxB == 2

\* hotel names of the primary table; their keys are "alba rios" and "alta rios"
PrimaryNames ==
    { <<"A","l","b","a"," ","R","i","o","s"," ","I","n","n">>,
      <<"A","l","t","a"," ","R","i","o","s">> }

\* hotel names of the secondary table: against "alba rios" they score
\* 100 (same key), 100 (another key, "rios alba"), 95, 94 and 90;
\* against "alta rios" 89, 89, 84, 82 and 80
SecondaryNames ==
    { <<"A","l","b","a"," ","R","i","o","s">>,
      <<"R","i","o","s"," ","A","l","b","a"," ","H","o","t","e","l">>,
      <<"A","l","b","a"," ","R","i","o","s","s">>,
      <<"A","l","b","a"," ","R","i","o">>,
      <<"A","l","b","a"," ","R","i","o","s","s","o">> }

\* distances from the centre, in hundredths of a kilometre
PrimaryDistances == {100}

SecondaryDistances == {0, 350}

\* distances around the bounds of the tiers, for a primary at distance 0
BoundaryDistances == {0, 200, 300, 350}

\* cells of the PRICE, RATING and REVIEW_AMOUNT columns
PriceCells ==
    { NaN, Num(-500), Num(0), Num(9000), Num(10000),
      Str(<<"9","0">>), Str(<<"N","/","A">>) }

RatingCells == { Num(800), Num(850) }

ReviewCells == { Num(5000), Num(20000), Str(<<"1",",","2","0","0">>) }

\* the cells of a row whose cells do not vary: <<PRICE, RATING, REVIEW_AMOUNT>>
PlainCells == { <<Num(10000), Num(800), Num(5000)>> }

AlbaRiosInn == <<"A","l","b","a"," ","R","i","o","s"," ","I","n","n">>

AlbaRios == <<"A","l","b","a"," ","R","i","o","s">>

\* a listing; every listing has its own URL
Listing(source, i, name, distance, cells) ==
    [ HOTEL_NAME    |-> name,
      PRICE         |-> cells[1],
      RATING        |-> cells[2],
      REVIEW_AMOUNT |-> cells[3],
      DISTANCE      |-> distance,
      URL           |-> <<source, i>> ]

\* the tables of lo to hi rows over the given names, distances and cells;
\* the index of a table is 0, 1, 2, ..
Tables(source, names, distances, cells, lo, hi) ==
    UNION { { [i \in 1..k |-> Listing(source, i - 1, f[i][1], f[i][2], f[i][3])] :
              f \in [1..k -> names \X distances \X cells] } : k \in lo..hi }

AllNames == PrimaryNames \cup SecondaryNames

\* the norm_name column (lines 73 and 77), computed once per name
NormKey == [n \in AllNames |-> normalize_HOTEL_NAME(n)]

AllKeys == {NormKey[n] : n \in AllNames}

\* the scorer's results, computed once per pair of keys
ScoreOf == [q \in AllKeys, k \in AllKeys |-> token_sort_ratio(q, k)]

\* ------------------------------------------------------------------------
\* match_datasets
\* ------------------------------------------------------------------------

VARIABLES
    df_a,               \* the primary table (Booking)
    df_b,               \* the secondary table (Agoda)
    pc,                 \* where match_datasets is: "start", "loop" or "done"
    b_norm_list,        \* the distinct secondary keys, in the order of list(set(..))
    row_pos,            \* the index of the next row of df_a
    results,            \* the merged records
    matched_indices_a,
    matched_indices_b,
    df_master,          \* the unified master table of run_unified_system
    raw_name,           \* a hotel name given to normalize_HOTEL_NAME
    normalized,         \* its normalized name
    renormalized,       \* the normalized name of normalized
    df,                 \* a table given to calculate_hotel_value_score
    processed_df,       \* the scored table
    limits,             \* the four limits given to filter_business_logic
    df_final,           \* the filtered master table of run_unified_system
    INDEXED_DF,         \* the scored filtered table of run_unified_system
    raw_val,            \* a cell given to extract_numeric
    extracted,          \* the number extract_numeric returns
    pages_to_scan,      \* run_adaptive_search: the most pages to request, 0 for None
    seen_hotel_ids,     \* the ids met so far
    data_for_export,    \* the rows collected for the export
    current_offset,     \* the offset of the page to request
    page_number,        \* the number of the page to request
    consecutive_empty_pages  \* the pages in a row that added no new id

\* the variables of the calls of normalize_HOTEL_NAME, of
\* calculate_hotel_value_score and of run_unified_system
norm_vars == << raw_name, normalized, renormalized >>

score_vars == << df, processed_df >>

system_vars ==
    << df_a, df_b, b_norm_list, row_pos, results,
       matched_indices_a, matched_indices_b, df_master >>

filter_vars == << limits, df_final, INDEXED_DF >>

numeric_vars == << raw_val, extracted >>

crawl_vars ==
    << pages_to_scan, seen_hotel_ids, data_for_export, current_offset, page_number,
       consecutive_empty_pages >>

other_vars == << filter_vars, numeric_vars, crawl_vars >>

vars == << pc, system_vars, norm_vars, score_vars, other_vars >>

\* the variables of a call that is not made keep their first values
FilterIdle == limits = <<>> /\ df_final = <<>> /\ INDEXED_DF = <<>>

NumericIdle == raw_val = <<>> /\ extracted = 0

CrawlIdle ==
    /\ pages_to_scan = 0
    /\ seen_hotel_ids = {}
    /\ data_for_export = <<>>
    /\ current_offset = 0
    /\ page_number = 1
    /\ consecutive_empty_pages = 0

\* the defaults of match_datasets, which run_unified_system does not override
threshold == 85

dist_tolerance == 300

\* the bounds of the second tier
Tier2Score == 90

Tier2Delta == 200

ExactScore == 100

\* df_a with the columns original_idx and norm_name (lines 71-73)
RowA(i) ==
    [ row |-> df_a[i + 1], original_idx |-> i, norm_name |-> NormKey[df_a[i + 1].HOTEL_NAME] ]

\* df_b_proc: df_b with the columns index and norm_name (lines 76-77)
RowB(i) ==
    [ row |-> df_b[i + 1], index |-> i, norm_name |-> NormKey[df_b[i + 1].HOTEL_NAME] ]

df_b_proc == [i \in 1..Len(df_b) |-> RowB(i - 1)]

\* agoda_lookup that keeps one row per key, the last one (a dict of rows, not
\* of lists of rows)
agoda_lookupLastRow(key) ==
    LET rows == SelectSeq(df_b_proc, LAMBDA r : r.norm_name = key)
    IN  IF rows = <<>> THEN <<>> ELSE << rows[Len(rows)] >>

\* agoda_lookup[key]: the rows of df_b_proc with that key, in table order
agoda_lookup(key) == SelectSeq(df_b_proc, LAMBDA r : r.norm_name = key)

\* the orders in which list(set(keys)) may enumerate the keys
KeyOrders(S) ==
    { q \in [1..Cardinality(S) -> S] : \A x \in S : \E i \in 1..Cardinality(S) : q[i] = x }

\* sorted(.., key=score, reverse=True) is stable: an item goes behind the items
\* that score as much
RECURSIVE InsertMatch(_, _)
InsertMatch(sorted, item) ==
    IF sorted = <<>> THEN <<item>>
    ELSE IF sorted[1][2] >= item[2] THEN <<sorted[1]>> \o InsertMatch(Tail(sorted), item)
    ELSE <<item>> \o sorted

\* process.extract(query, choices, scorer=fuzz.token_sort_ratio, limit=None):
\* every choice with its score, best first
RECURSIVE extract(_, _)
extract(query, choices) ==
    IF choices = <<>> THEN <<>>
    ELSE LET last == choices[Len(choices)]
         IN  InsertMatch(extract(query, SubSeq(choices, 1, Len(choices) - 1)),
                         <<last, ScoreOf[query, last]>>)

\* lines 95-102: the rows under a kept key that lie within the tolerance
CandidatesOf(row_a, m_name, m_score) ==
    LET near == SelectSeq(agoda_lookup(m_name),
                          LAMBDA r : Abs(row_a.row.DISTANCE - r.row.DISTANCE) <= dist_tolerance)
    IN  [i \in 1..Len(near) |->
            [ row_b      |-> near[i],
              score      |-> m_score,
              dist_delta |-> Abs(row_a.row.DISTANCE - near[i].row.DISTANCE) ]]

\* ValidFrom without the test of the score against the threshold
RECURSIVE ValidFromAnyScore(_, _, _)
ValidFromAnyScore(row_a, raw_matches, k) ==
    IF k > Len(raw_matches) THEN <<>>
    ELSE CandidatesOf(row_a, raw_matches[k][1], raw_matches[k][2])
         \o ValidFromAnyScore(row_a, raw_matches, k + 1)

\* lines 89-102: valid_matches_info
RECURSIVE ValidFrom(_, _, _)
ValidFrom(row_a, raw_matches, k) ==
    IF k > Len(raw_matches) THEN <<>>
    ELSE (IF raw_matches[k][2] >= threshold
          THEN CandidatesOf(row_a, raw_matches[k][1], raw_matches[k][2])
          ELSE <<>>)
         \o ValidFrom(row_a, raw_matches, k + 1)

\* valid_matches_info that leaves out the secondary rows that already won
valid_matches_infoUnclaimed(row_a) ==
    SelectSeq(ValidFrom(row_a, extract(row_a.norm_name, b_norm_list), 1),
              LAMBDA m : m.row_b.index \notin matched_indices_b)

valid_matches_info(row_a) ==
    ValidFrom(row_a, extract(row_a.norm_name, b_norm_list), 1)

\* enumerate(valid_matches_info): the indices of v, in order
Enumerate(v) == [i \in 1..Len(v) |-> i]

\* FirstMax that keeps the last of the indices with the greatest score
LastMax(idxs, v) ==
    LET k == CHOOSE k \in 1..Len(idxs) :
                 /\ \A m \in 1..Len(idxs) : v[idxs[m]].score <= v[idxs[k]].score
                 /\ \A m \in (k + 1)..Len(idxs) : v[idxs[m]].score < v[idxs[k]].score
    IN  idxs[k]

\* max(idxs, key=score): the first index of idxs with the greatest score
FirstMax(idxs, v) ==
    LET k == CHOOSE k \in 1..Len(idxs) :
                 /\ \A m \in 1..Len(idxs) : v[idxs[m]].score <= v[idxs[k]].score
                 /\ \A m \in 1..(k - 1) : v[idxs[m]].score < v[idxs[k]].score
    IN  idxs[k]

Tier1(v) ==
    SelectSeq(Enumerate(v),
              LAMBDA i : v[i].score = ExactScore /\ v[i].dist_delta <= dist_tolerance)

\* Tier2 with the tolerance of the first tier as its distance bound
Tier2WideDelta(v) ==
    SelectSeq(Enumerate(v),
              LAMBDA i : v[i].score > Tier2Score /\ v[i].dist_delta <= dist_tolerance)

Tier2(v) ==
    SelectSeq(Enumerate(v),
              LAMBDA i : v[i].score > Tier2Score /\ v[i].dist_delta <= Tier2Delta)

\* Tier3 with the bound of the second tier on the score
Tier3HighScore(v) == SelectSeq(Enumerate(v), LAMBDA i : v[i].score > Tier2Score)

Tier3(v) == SelectSeq(Enumerate(v), LAMBDA i : v[i].score >= threshold)

\* best_ref with the second tier tried before the first
best_refTier2First(v) ==
    IF Tier2(v) # <<>> THEN FirstMax(Tier2(v), v)
    ELSE IF Tier1(v) # <<>> THEN Tier1(v)[1]
    ELSE IF Tier3(v) # <<>> THEN FirstMax(Tier3(v), v)
    ELSE FirstMax([i \in 1..Len(v) |-> i], v)

\* lines 109-121: best_ref, an index of the non-empty list v (from 1)
best_ref(v) ==
    IF Tier1(v) # <<>> THEN Tier1(v)[1]
    ELSE IF Tier2(v) # <<>> THEN FirstMax(Tier2(v), v)
    ELSE IF Tier3(v) # <<>> THEN FirstMax(Tier3(v), v)
    ELSE FirstMax([i \in 1..Len(v) |-> i], v)

\* Cheapest without the cases of a platform that reports no price
CheapestNoZeroCase(a, b) ==
    LET p_b == extract_numeric(a.PRICE)
        p_a == extract_numeric(b.PRICE)
    IN  IF 0 < p_b /\ p_b < p_a
        THEN [price |-> p_b, source |-> "Booking", url |-> a.URL]
        ELSE IF 0 < p_a /\ p_a < p_b
        THEN [price |-> p_a, source |-> "Agoda", url |-> b.URL]
        ELSE [price |-> p_b, source |-> "Same or Unavailable", url |-> a.URL]

\* lines 136-143: the lower price of the two platforms
Cheapest(a, b) ==
    LET p_b == extract_numeric(a.PRICE)
        p_a == extract_numeric(b.PRICE)
    IN  IF (0 < p_b /\ p_b < p_a) \/ (p_b > 0 /\ p_a = 0)
        THEN [price |-> p_b, source |-> "Booking", url |-> a.URL]
        ELSE IF (0 < p_a /\ p_a < p_b) \/ (p_a > 0 /\ p_b = 0)
        THEN [price |-> p_a, source |-> "Agoda", url |-> b.URL]
        ELSE [price |-> p_b, source |-> "Same or Unavailable", url |-> a.URL]

\* MaxReviews that takes the primary only when its count is strictly higher
MaxReviewsStrict(a, b) ==
    LET rev_b == extract_numeric(a.REVIEW_AMOUNT)
        rev_a == extract_numeric(b.REVIEW_AMOUNT)
    IN  IF rev_b > rev_a
        THEN [count |-> rev_b, source |-> "Booking", rating |-> a.RATING]
        ELSE [count |-> rev_a, source |-> "Agoda", rating |-> b.RATING]

\* lines 145-150: the higher review count and the rating that comes with it
MaxReviews(a, b) ==
    LET rev_b == extract_numeric(a.REVIEW_AMOUNT)
        rev_a == extract_numeric(b.REVIEW_AMOUNT)
    IN  IF rev_b >= rev_a
        THEN [count |-> rev_b, source |-> "Booking", rating |-> a.RATING]
        ELSE [count |-> rev_a, source |-> "Agoda", rating |-> b.RATING]

\* lines 132-157: the merged record of one candidate. Dist_Delta is rounded to
\* three decimals, which keeps a number of hundredths as it is.
Merged(row_a, match, recommended) ==
    LET a == row_a.row
        b == match.row_b.row
        cheapest == Cheapest(a, b)
        reviews == MaxReviews(a, b)
    IN  [ HOTEL_NAME_Booking     |-> a.HOTEL_NAME,
          PRICE_Booking          |-> a.PRICE,
          RATING_Booking         |-> a.RATING,
          REVIEW_AMOUNT_Booking  |-> a.REVIEW_AMOUNT,
          DISTANCE_Booking       |-> a.DISTANCE,
          URL_Booking            |-> a.URL,
          HOTEL_NAME_Agoda       |-> b.HOTEL_NAME,
          PRICE_Agoda            |-> b.PRICE,
          RATING_Agoda           |-> b.RATING,
          REVIEW_AMOUNT_Agoda    |-> b.REVIEW_AMOUNT,
          DISTANCE_Agoda         |-> b.DISTANCE,
          URL_Agoda              |-> b.URL,
          Cheapest_Price         |-> cheapest.price,
          Cheapest_Source        |-> cheapest.source,
          Cheapest_Deal_URL      |-> cheapest.url,
          Max_Reviews_Count      |-> reviews.count,
          Max_Reviews_Source     |-> reviews.source,
          Rating_From_Max_Source |-> reviews.rating,
          Match_Score            |-> match.score,
          Dist_Delta             |-> match.dist_delta,
          Recommended_Match      |-> IF recommended THEN "YES" ELSE "NO" ]

\* MergedRows with the winner counted from 0 where the list counts from 1
MergedRowsOffByOne(row_a, v, best) ==
    [i \in 1..Len(v) |-> Merged(row_a, v[i], i = best - 1)]

\* lines 131-158: one merged record per candidate, in the order of the candidates
MergedRows(row_a, v, best) ==
    [i \in 1..Len(v) |-> Merged(row_a, v[i], i = best)]

\* df.drop(index=list(matched)): the rows whose index is not in the set
Drop(table, matched) ==
    LET keep == SelectSeq([i \in 1..Len(table) |-> i], LAMBDA i : (i - 1) \notin matched)
    IN  [k \in 1..Len(keep) |-> table[keep[k]]]

\* the row of the master table of a merged record; the lower price and the
\* higher review count are numbers
MatchedRow(r) ==
    [ Hotel_Name      |-> r.HOTEL_NAME_Booking,
      Price           |-> Num(r.Cheapest_Price),
      Rating          |-> r.Rating_From_Max_Source,
      Reviews_Amount  |-> Num(r.Max_Reviews_Count),
      Distance        |-> r.DISTANCE_Booking,
      URL             |-> r.Cheapest_Deal_URL,
      Original_Source |-> r.Cheapest_Source,
      Status          |-> "Matched" ]

\* m_norm with every merged record, recommended or not
m_normAllRecords(records) ==
    [k \in 1..Len(records) |-> MatchedRow(records[k])]

\* main.py lines 89-94: the recommended merged records under the unified schema
m_norm(records) ==
    LET yes == SelectSeq(records, LAMBDA r : r.Recommended_Match = "YES")
    IN  [k \in 1..Len(yes) |-> MatchedRow(yes[k])]

\* main.py lines 97-104: the listings of one source under the unified schema
format_unmatched(table, source) ==
    [k \in 1..Len(table) |->
        [ Hotel_Name      |-> table[k].HOTEL_NAME,
          Price           |-> table[k].PRICE,
          Rating          |-> table[k].RATING,
          Reviews_Amount  |-> table[k].REVIEW_AMOUNT,
          Distance        |-> table[k].DISTANCE,
          URL             |-> table[k].URL,
          Original_Source |-> source,
          Status          |-> "Unmatched" ]]

\* the input tables: small tables that vary the names, or a primary listing
\* with small tables that vary the distances, or two listings that vary the
\* cells
InputTables ==
    (Tables("booking", PrimaryNames, PrimaryDistances, PlainCells, 0, MaxA)
        \X Tables("agoda", SecondaryNames, SecondaryDistances, PlainCells, 0, MaxB))
    \cup
    (Tables("booking", {AlbaRiosInn}, {0}, PlainCells, 1, 1)
        \X Tables("agoda", {AlbaRios}, BoundaryDistances, PlainCells, 1, MaxB))
    \cup
    (Tables("booking", {AlbaRiosInn}, {0}, PriceCells \X RatingCells \X ReviewCells, 1, 1)
        \X Tables("agoda", {AlbaRios}, {0, 350}, PriceCells \X RatingCells \X ReviewCells, 1, 1))

Init ==
    /\ \E t \in InputTables : df_a = t[1] /\ df_b = t[2]
    /\ pc = "start"
    /\ b_norm_list = <<>>
    /\ row_pos = 0
    /\ results = <<>>
    /\ matched_indices_a = {}
    /\ matched_indices_b = {}
    /\ df_master = <<>>
    /\ raw_name = <<>>
    /\ normalized = <<>>
    /\ renormalized = <<>>
    /\ df = <<>>
    /\ processed_df = <<>>
    /\ FilterIdle
    /\ NumericIdle
    /\ CrawlIdle

\* lines 66-82: the sets start empty, the keys are listed and the lookup is built
Prepare ==
    /\ pc = "start"
    /\ b_norm_list' \in KeyOrders({NormKey[df_b[i].HOTEL_NAME] : i \in 1..Len(df_b)})
    /\ pc' = "loop"
    /\ UNCHANGED << df_a, df_b, row_pos, results, matched_indices_a, matched_indices_b >>
    /\ UNCHANGED << df_master, norm_vars, score_vars, other_vars >>

\* lines 85-105: a row of df_a that has no candidate is passed over
SkipRow ==
    /\ pc = "loop"
    /\ row_pos < Len(df_a)
    /\ valid_matches_info(RowA(row_pos)) = <<>>
    /\ row_pos' = row_pos + 1
    /\ UNCHANGED << df_a, df_b, pc, b_norm_list, results, matched_indices_a, matched_indices_b >>
    /\ UNCHANGED << df_master, norm_vars, score_vars, other_vars >>

\* lines 85-158: a row of df_a that has candidates: the winner is chosen and
\* recorded, and every candidate is merged
MatchRow ==
    /\ pc = "loop"
    /\ row_pos < Len(df_a)
    /\ LET row_a == RowA(row_pos)
           v     == valid_matches_info(row_a)
       IN  /\ v # <<>>
           /\ LET best == best_ref(v)
              IN  /\ matched_indices_a' = matched_indices_a \cup {row_a.original_idx}
                  /\ matched_indices_b' = matched_indices_b \cup {v[best].row_b.index}
                  /\ results' = results \o MergedRows(row_a, v, best)
    /\ row_pos' = row_pos + 1
    /\ UNCHANGED << df_a, df_b, pc, b_norm_list >>
    /\ UNCHANGED << df_master, norm_vars, score_vars, other_vars >>

\* line 160: the loop is over and the results are returned
Return ==
    /\ pc = "loop"
    /\ row_pos >= Len(df_a)
    /\ pc' = "done"
    /\ UNCHANGED << df_a, df_b, b_norm_list, row_pos, results,
                    matched_indices_a, matched_indices_b >>
    /\ UNCHANGED << df_master, norm_vars, score_vars, other_vars >>

\* main.py lines 73-108: match_datasets returned merged records; the listings
\* that won no match are set apart and the master table is put together
BuildMaster ==
    /\ pc = "done"
    /\ results # <<>>
    /\ LET df_un_booking == Drop(df_a, matched_indices_a)
           df_un_agoda   == Drop(df_b, matched_indices_b)
       IN  df_master' = m_norm(results)
                        \o format_unmatched(df_un_booking, "Booking")
                        \o format_unmatched(df_un_agoda, "Agoda")
    /\ pc' = "master"
    /\ UNCHANGED << df_a, df_b, b_norm_list, row_pos, results,
                    matched_indices_a, matched_indices_b, norm_vars, score_vars, other_vars >>

\* main.py lines 73 and 136-137: match_datasets returned no merged record; a
\* warning is printed and no table is written
NoMatches ==
    /\ pc = "done"
    /\ results = <<>>
    /\ pc' = "no_matches"
    /\ UNCHANGED << system_vars, norm_vars, score_vars, other_vars >>

Next == Prepare \/ SkipRow \/ MatchRow \/ Return \/ BuildMaster \/ NoMatches

Spec == Init /\ [][Next]_vars

\* ------------------------------------------------------------------------
\* Properties of match_datasets
\* ------------------------------------------------------------------------

IndicesA == 0..(Len(df_a) - 1)

IndicesB == 0..(Len(df_b) - 1)

\* the similarity of the normalized names of primary i and secondary j
PairScore(i, j) ==
    ScoreOf[NormKey[df_a[i + 1].HOTEL_NAME], NormKey[df_b[j + 1].HOTEL_NAME]]

PairDelta(i, j) == Abs(df_a[i + 1].DISTANCE - df_b[j + 1].DISTANCE)

\* secondary j belongs to the candidate list of primary i
IsCandidate(i, j) == PairScore(i, j) >= threshold /\ PairDelta(i, j) <= dist_tolerance

\* a merged record is the record of primary i, of secondary j
OfPrimary(r, i) == r.URL_Booking = df_a[i + 1].URL

OfSecondary(r, j) == r.URL_Agoda = df_b[j + 1].URL

\* the merged records emitted for primary i, in their order
RecordsOf(i) == SelectSeq(results, LAMBDA r : OfPrimary(r, i))

\* the positions of the recommended records of a list of records
Winners(recs) == {k \in 1..Len(recs) : recs[k].Recommended_Match = "YES"}

\* C1: after match_datasets, a primary listing that has candidates has exactly
\* one merged record with Recommended_Match = YES and NO on all its others, and
\* a primary listing without candidates has no merged record
C1_ExactlyOneWinner ==
    pc = "done" =>
        \A i \in IndicesA :
            LET recs == RecordsOf(i)
            IN  IF \E j \in IndicesB : IsCandidate(i, j)
                THEN /\ Cardinality(Winners(recs)) = 1
                     /\ \A k \in 1..Len(recs) : recs[k].Recommended_Match \in {"YES", "NO"}
                ELSE recs = <<>>

\* a finished run where one primary has a winner and a loser among its records
\* and another primary has no candidate
C1_Witness ==
    /\ pc = "done"
    /\ \E i \in IndicesA :
           /\ Winners(RecordsOf(i)) # {}
           /\ \E k \in 1..Len(RecordsOf(i)) : RecordsOf(i)[k].Recommended_Match = "NO"
    /\ \E i \in IndicesA : \A j \in IndicesB : ~IsCandidate(i, j)

\* the similarity and the distance delta of the two listings of a merged record
RecScore(r) == ScoreOf[NormKey[r.HOTEL_NAME_Booking], NormKey[r.HOTEL_NAME_Agoda]]

RecDelta(r) == Abs(r.DISTANCE_Booking - r.DISTANCE_Agoda)

\* the positions of the records of the first tier, and of the second tier
ExactRecords(recs) ==
    {k \in 1..Len(recs) : RecScore(recs[k]) = 100 /\ RecDelta(recs[k]) <= dist_tolerance}

HighRecords(recs) ==
    {k \in 1..Len(recs) : RecScore(recs[k]) > 90 /\ RecDelta(recs[k]) <= 200}

\* position w holds the greatest score of the positions S, and is the earliest
\* of S to hold it
EarliestBest(recs, S, w) ==
    /\ w \in S
    /\ \A k \in S : RecScore(recs[k]) <= RecScore(recs[w])
    /\ \A k \in S : k < w => RecScore(recs[k]) < RecScore(recs[w])

\* C2: when a candidate of a primary listing scores 100, the recommended match
\* is the first candidate in generation order that scores 100, whatever the
\* distance deltas of the candidates that score less
C2_Tier1First ==
    pc = "done" =>
        \A i \in IndicesA :
            LET recs == RecordsOf(i)
            IN  ExactRecords(recs) # {} =>
                    /\ Winners(recs) # {}
                    /\ \A w \in Winners(recs) :
                           /\ w \in ExactRecords(recs)
                           /\ \A k \in ExactRecords(recs) : w <= k

\* the winner scores 100 at a delta above 2.0 and a candidate that scores
\* between 90 and 100 is nearer
C2_Witness ==
    /\ pc = "done"
    /\ \E i \in IndicesA :
           LET recs == RecordsOf(i)
           IN  \E w \in Winners(recs) : \E k \in 1..Len(recs) :
                   /\ RecScore(recs[w]) = 100
                   /\ RecDelta(recs[w]) > 200
                   /\ RecScore(recs[k]) > 90
                   /\ RecScore(recs[k]) < 100
                   /\ RecDelta(recs[k]) < RecDelta(recs[w])

\* C3: when no candidate scores 100 and some candidate scores above 90 with a
\* delta of at most 2.0, the recommended match is the best-scoring of those
\* candidates, the earliest of them on a tie
C3_Tier2Best ==
    pc = "done" =>
        \A i \in IndicesA :
            LET recs == RecordsOf(i)
            IN  (ExactRecords(recs) = {} /\ HighRecords(recs) # {}) =>
                    /\ Winners(recs) # {}
                    /\ \A w \in Winners(recs) : EarliestBest(recs, HighRecords(recs), w)

\* the winner is of the second tier and a candidate with a higher score, at a
\* delta above 2.0, is passed over
C3_Witness ==
    /\ pc = "done"
    /\ \E i \in IndicesA :
           LET recs == RecordsOf(i)
           IN  /\ ExactRecords(recs) = {}
               /\ \E w \in Winners(recs) : \E k \in 1..Len(recs) :
                      /\ w \in HighRecords(recs)
                      /\ RecScore(recs[k]) > RecScore(recs[w])
                      /\ RecDelta(recs[k]) > 200

\* C4: when a primary listing has candidates and none of the first or second
\* tier, the recommended match is the best-scoring of the candidates that score
\* at least the threshold, the earliest of them on a tie
C4_Tier3Best ==
    pc = "done" =>
        \A i \in IndicesA :
            LET recs == RecordsOf(i)
                S == {k \in 1..Len(recs) : RecScore(recs[k]) >= threshold}
            IN  (recs # <<>> /\ ExactRecords(recs) = {} /\ HighRecords(recs) = {}) =>
                    /\ Winners(recs) # {}
                    /\ \A w \in Winners(recs) : EarliestBest(recs, S, w)

\* the winner is of the third tier and a later candidate scores as much
C4_Witness ==
    /\ pc = "done"
    /\ \E i \in IndicesA :
           LET recs == RecordsOf(i)
           IN  /\ ExactRecords(recs) = {}
               /\ HighRecords(recs) = {}
               /\ \E w \in Winners(recs) : \E k \in 1..Len(recs) :
                      k > w /\ RecScore(recs[k]) = RecScore(recs[w])

\* C5: the two listings of every merged record score at least the threshold
\* and lie at most the tolerance apart
C5_CandidatesSound ==
    \A k \in 1..Len(results) :
        RecScore(results[k]) >= threshold /\ RecDelta(results[k]) <= dist_tolerance

\* records were emitted, and a pair that scores 80 (below the threshold of 85)
\* has none
C5_Witness ==
    /\ pc = "done"
    /\ results # <<>>
    /\ \E i \in IndicesA : \E j \in IndicesB :
           /\ PairScore(i, j) = 80
           /\ PairDelta(i, j) <= dist_tolerance
           /\ \A k \in 1..Len(results) :
                  ~(OfPrimary(results[k], i) /\ OfSecondary(results[k], j))

\* the merged records of primary i and secondary j
PairRecords(i, j) ==
    {k \in 1..Len(results) : OfPrimary(results[k], i) /\ OfSecondary(results[k], j)}

\* C6: after match_datasets every pair of a primary and a secondary listing
\* that scores at least the threshold within the tolerance has exactly one
\* merged record (no other pair has one), so a primary listing has as many
\* records as candidates
C6_CandidatesComplete ==
    pc = "done" =>
        \A i \in IndicesA :
            /\ \A j \in IndicesB :
                   Cardinality(PairRecords(i, j)) = (IF IsCandidate(i, j) THEN 1 ELSE 0)
            /\ Len(RecordsOf(i)) = Cardinality({j \in IndicesB : IsCandidate(i, j)})

\* two secondary listings that share a normalized name both have a record with
\* one primary listing, one of them not recommended, and one secondary listing
\* has records with two primary listings
C6_Witness ==
    /\ pc = "done"
    /\ \E i \in IndicesA : \E j1, j2 \in IndicesB :
           /\ j1 # j2
           /\ NormKey[df_b[j1 + 1].HOTEL_NAME] = NormKey[df_b[j2 + 1].HOTEL_NAME]
           /\ PairRecords(i, j1) # {}
           /\ \E k \in PairRecords(i, j2) : results[k].Recommended_Match = "NO"
    /\ \E i1, i2 \in IndicesA : \E j \in IndicesB :
           i1 # i2 /\ PairRecords(i1, j) # {} /\ PairRecords(i2, j) # {}

\* C7: no secondary listing is the recommended match of two primary listings
\* (and no primary listing has two recommended matches)
C7_OneToOne ==
    pc = "done" =>
        \A k1, k2 \in 1..Len(results) :
            (/\ results[k1].Recommended_Match = "YES"
             /\ results[k2].Recommended_Match = "YES"
             /\ k1 # k2)
            => /\ results[k1].URL_Agoda # results[k2].URL_Agoda
               /\ results[k1].URL_Booking # results[k2].URL_Booking

\* the coerced prices of a merged record
PrimaryPrice(r) == extract_numeric(r.PRICE_Booking)

SecondaryPrice(r) == extract_numeric(r.PRICE_Agoda)

FromPrimary(r, price) ==
    /\ r.Cheapest_Price = price
    /\ r.Cheapest_Source = "Booking"
    /\ r.Cheapest_Deal_URL = r.URL_Booking

FromSecondary(r, price) ==
    /\ r.Cheapest_Price = price
    /\ r.Cheapest_Source = "Agoda"
    /\ r.Cheapest_Deal_URL = r.URL_Agoda

\* C8: with p and s the coerced prices of a merged record, 0 < p < s or
\* (p > 0 and s = 0) gives the price, source and URL of the primary,
\* 0 < s < p or (s > 0 and p = 0) those of the secondary, and two positive
\* prices give the lower of the two
C8_CheapestPrice ==
    \A k \in 1..Len(results) :
        LET r == results[k]
            p == PrimaryPrice(r)
            s == SecondaryPrice(r)
        IN  /\ ((0 < p /\ p < s) \/ (p > 0 /\ s = 0)) => FromPrimary(r, p)
            /\ ((0 < s /\ s < p) \/ (s > 0 /\ p = 0)) => FromSecondary(r, s)
            /\ (p > 0 /\ s > 0) => r.Cheapest_Price = (IF p <= s THEN p ELSE s)

\* a primary at 100 and a secondary at 90 give 90 from the secondary
C8_Witness ==
    \E k \in 1..Len(results) :
        /\ PrimaryPrice(results[k]) = 10000
        /\ SecondaryPrice(results[k]) = 9000
        /\ FromSecondary(results[k], 9000)

\* C9: Cheapest_Price is non-positive only if both coerced prices are
\* non-positive
C9_CheapestPositive ==
    \A k \in 1..Len(results) :
        results[k].Cheapest_Price <= 0 =>
            (PrimaryPrice(results[k]) <= 0 /\ SecondaryPrice(results[k]) <= 0)

\* C10: a merged record has the source 'Same or Unavailable' only when the
\* coerced prices are equal or both non-positive
C10_TiedOnlyWhenEqualOrNone ==
    \A k \in 1..Len(results) :
        LET r == results[k]
        IN  /\ r.Cheapest_Source \in {"Booking", "Agoda", "Same or Unavailable"}
            /\ r.Cheapest_Source = "Same or Unavailable" =>
                   \/ PrimaryPrice(r) = SecondaryPrice(r)
                   \/ (PrimaryPrice(r) <= 0 /\ SecondaryPrice(r) <= 0)

\* the coerced review counts of a merged record
PrimaryReviews(r) == extract_numeric(r.REVIEW_AMOUNT_Booking)

SecondaryReviews(r) == extract_numeric(r.REVIEW_AMOUNT_Agoda)

\* C11: in every merged record Max_Reviews_Count is the greater of the two
\* coerced review counts, Max_Reviews_Source is the secondary when its count is
\* strictly greater and the primary otherwise, and Rating_From_Max_Source is
\* the rating that the named side reports
C11_MostReviews ==
    \A k \in 1..Len(results) :
        LET r == results[k]
            p == PrimaryReviews(r)
            s == SecondaryReviews(r)
        IN  /\ r.Max_Reviews_Count = Max(p, s)
            /\ r.Max_Reviews_Source = (IF s > p THEN "Agoda" ELSE "Booking")
            /\ r.Max_Reviews_Source = "Booking" => r.Rating_From_Max_Source = r.RATING_Booking
            /\ r.Max_Reviews_Source = "Agoda" => r.Rating_From_Max_Source = r.RATING_Agoda

\* a tie of the review counts between two listings whose ratings differ: the
\* record takes the primary and its rating
C11_Witness ==
    \E k \in 1..Len(results) :
        /\ PrimaryReviews(results[k]) = SecondaryReviews(results[k])
        /\ results[k].RATING_Booking # results[k].RATING_Agoda
        /\ results[k].Max_Reviews_Source = "Booking"
        /\ results[k].Rating_From_Max_Source = results[k].RATING_Booking

\* the positions of the master table with the given status, in table order
RowsWithStatus(status) ==
    SelectSeq([k \in 1..Len(df_master) |-> k], LAMBDA k : df_master[k].Status = status)

\* the recommended merged records, in the order of the audit table
Recommended == SelectSeq(results, LAMBDA r : r.Recommended_Match = "YES")

\* the listing is reported as an unmatched listing of the source
ReportedUnmatched(listing, source) ==
    \E k \in 1..Len(df_master) :
        /\ df_master[k].Status = "Unmatched"
        /\ df_master[k].Original_Source = source
        /\ df_master[k].URL = listing.URL
        /\ df_master[k].Hotel_Name = listing.HOTEL_NAME

\* the primary listings that have a candidate
WithCandidate == {i \in IndicesA : \E j \in IndicesB : IsCandidate(i, j)}

\* C12: in the master table the Matched rows are the recommended merged
\* records, one per primary listing that has a candidate and in their order; a
\* listing of either source is an Unmatched row exactly when no recommended
\* record has it as its primary or as its secondary, and every Unmatched row is
\* such a listing
C12_MasterComposition ==
    pc = "master" =>
        LET matched == RowsWithStatus("Matched")
        IN  /\ Len(matched) = Len(Recommended)
            /\ Len(matched) = Cardinality(WithCandidate)
            /\ \A k \in 1..Len(matched) :
                   LET row == df_master[matched[k]]
                       r   == Recommended[k]
                   IN  /\ row.Hotel_Name = r.HOTEL_NAME_Booking
                       /\ row.Distance = r.DISTANCE_Booking
                       /\ row.Price = Num(r.Cheapest_Price)
                       /\ row.URL = r.Cheapest_Deal_URL
                       /\ row.Original_Source = r.Cheapest_Source
                       /\ row.Rating = r.Rating_From_Max_Source
                       /\ row.Reviews_Amount = Num(r.Max_Reviews_Count)
            /\ \A i \in IndicesA :
                   ReportedUnmatched(df_a[i + 1], "Booking")
                       <=> ~(\E k \in 1..Len(Recommended) : OfPrimary(Recommended[k], i))
            /\ \A j \in IndicesB :
                   ReportedUnmatched(df_b[j + 1], "Agoda")
                       <=> ~(\E k \in 1..Len(Recommended) : OfSecondary(Recommended[k], j))
            /\ Len(df_master) = Len(matched)
                   + Cardinality({i \in IndicesA : ReportedUnmatched(df_a[i + 1], "Booking")})
                   + Cardinality({j \in IndicesB : ReportedUnmatched(df_b[j + 1], "Agoda")})

\* a master table with a Matched row, an unmatched primary listing and an
\* unmatched secondary listing that was a candidate and did not win
C12_Witness ==
    /\ pc = "master"
    /\ RowsWithStatus("Matched") # <<>>
    /\ \E i \in IndicesA : ReportedUnmatched(df_a[i + 1], "Booking")
    /\ \E j \in IndicesB :
           /\ ReportedUnmatched(df_b[j + 1], "Agoda")
           /\ \E k \in 1..Len(results) :
                  OfSecondary(results[k], j) /\ results[k].Recommended_Match = "NO"

\* C13: when both tables have listings, once run_unified_system has dealt
\* with the outcome of match_datasets every primary listing without a candidate
\* is an Unmatched row of the master table, also when no primary listing has a
\* candidate
C13_UnmatchedReported ==
    (pc \in {"master", "no_matches"} /\ df_a # <<>> /\ df_b # <<>>) =>
        \A i \in IndicesA \ WithCandidate : ReportedUnmatched(df_a[i + 1], "Booking")

\* the audit table that match_datasets returns for df_a and df_b when
\* list(set(..)) enumerates the secondary keys in the given order, from primary
\* row i on
RECURSIVE AuditFrom(_, _)
AuditFrom(order, i) ==
    IF i >= Len(df_a) THEN <<>>
    ELSE LET row_a == RowA(i)
             v     == ValidFrom(row_a, extract(row_a.norm_name, order), 1)
         IN  (IF v = <<>> THEN <<>> ELSE MergedRows(row_a, v, best_ref(v)))
             \o AuditFrom(order, i + 1)

\* the orders in which a run may enumerate the secondary keys of df_b
RunOrders == KeyOrders({NormKey[df_b[j].HOTEL_NAME] : j \in 1..Len(df_b)})

\* C14: a run on the same two tables returns the same audit table: the table
\* that this run returned is the one that every enumeration of the secondary
\* keys which a run may meet leads to
C14_Deterministic ==
    pc = "done" => \A order \in RunOrders : AuditFrom(order, 0) = results

\* the primary rows that the loop has been through
Processed == IF pc = "start" THEN {} ELSE 0..(row_pos - 1)

\* the merged records that primary row i gives by itself: from the row, the
\* secondary keys and the lookup, with no other primary row and no set of
\* matched indices
RecordsAlone(i) ==
    LET row_a == RowA(i)
        v     == valid_matches_info(row_a)
    IN  IF v = <<>> THEN <<>> ELSE MergedRows(row_a, v, best_ref(v))

\* the index of the secondary row of the recommended record of records
WinnerIndex(recs) ==
    LET w == CHOOSE k \in 1..Len(recs) : recs[k].Recommended_Match = "YES"
    IN  CHOOSE j \in IndicesB : OfSecondary(recs[w], j)

MaxFragments == 3

\* the pieces that the names are made of
Fragments ==
    { <<"h","o">>, <<"-","t","e","l">>, <<" ","a","l","p","h","a">>,
      <<"T","h","e"," ">>, <<"I","n","n">>, <<" ">>, <<"!">> }

RECURSIVE Concat(_)
Concat(pieces) ==
    IF pieces = <<>> THEN <<>> ELSE pieces[1] \o Concat(Tail(pieces))

\* the names of at most MaxFragments fragments, and a missing name
SampleNames ==
    {NoName} \cup
    UNION { {Concat(f) : f \in [1..n -> Fragments]} : n \in 0..MaxFragments }

InitNorm ==
    /\ raw_name \in SampleNames
    /\ normalized = <<>>
    /\ renormalized = <<>>
    /\ pc = "name"
    /\ df_a = <<>>
    /\ df_b = <<>>
    /\ b_norm_list = <<>>
    /\ row_pos = 0
    /\ results = <<>>
    /\ matched_indices_a = {}
    /\ matched_indices_b = {}
    /\ df_master = <<>>
    /\ df = <<>>
    /\ processed_df = <<>>
    /\ FilterIdle
    /\ NumericIdle
    /\ CrawlIdle

\* lines 10-32 applied to the name
Normalize ==
    /\ pc = "name"
    /\ normalized' = normalize_HOTEL_NAME(raw_name)
    /\ pc' = "normalized"
    /\ UNCHANGED << raw_name, renormalized, system_vars, score_vars, other_vars >>

\* lines 10-32 applied to the normalized name
Renormalize ==
    /\ pc = "normalized"
    /\ renormalized' = normalize_HOTEL_NAME(normalized)
    /\ pc' = "renormalized"
    /\ UNCHANGED << raw_name, normalized, system_vars, score_vars, other_vars >>

NextNorm == Normalize \/ Renormalize

SpecNorm == InitNorm /\ [][NextNorm]_vars

\* C16: the normalized name of a normalized name is that normalized name
C16_Idempotent ==
    pc = "renormalized" => renormalized = normalized

\* the name is a text
IsText(x) == x # NoName

\* the name has a character that is not white space
NotBlank(x) == IsText(x) /\ \E k \in 1..Len(x) : ~IsSpace(x[k])

\* C17 as stated: a name that is a text of at least one character never has
\* the empty key
C17_NeverEmpty ==
    (pc = "normalized" /\ IsText(raw_name) /\ raw_name # <<>>) => normalized # <<>>

\* C17, amended: a name with a character that is not white space never has the
\* empty key, and when the removal of stop words and special characters leaves
\* nothing of it, its key is the name in lower case without the white space
\* around it
C17_NeverEmptyUnlessBlank ==
    (pc = "normalized" /\ NotBlank(raw_name)) =>
        /\ normalized # <<>>
        /\ Join(Split(StripSpecial(RemoveNoise(Strip(Lower(raw_name)), 1)))) = <<>>
               => normalized = Strip(Lower(raw_name))

\* the name 'The Inn' has only stop words: its key is 'the inn'
C17_Witness ==
    /\ pc = "normalized"
    /\ raw_name = <<"T","h","e"," ","I","n","n">>
    /\ normalized = <<"t","h","e"," ","i","n","n">>

\* ------------------------------------------------------------------------
\* calculate_hotel_value_score
\* ------------------------------------------------------------------------

\* A float is a binary64 number. Its arithmetic is exact arithmetic on natural
\* numbers of any size, followed by the rounding to 53 bits, so a natural is
\* kept as its limbs of LimbBits bits, the least first, without a zero limb at
\* the top; <<>> is 0.
LimbBits == 15

LimbBase == 32768

\* the bits of the mantissa of a binary64 number
MantissaBits == 53

RECURSIVE Trim(_)
Trim(a) ==
    IF a # <<>> /\ a[Len(a)] = 0 THEN Trim(SubSeq(a, 1, Len(a) - 1)) ELSE a

RECURSIVE Big(_)
Big(n) == IF n = 0 THEN <<>> ELSE <<n % LimbBase>> \o Big(n \div LimbBase)

Limb(a, i) == IF i <= Len(a) THEN a[i] ELSE 0

RECURSIVE AddFrom(_, _, _, _)
AddFrom(a, b, i, carry) ==
    IF i > Len(a) /\ i > Len(b) THEN (IF carry = 0 THEN <<>> ELSE <<carry>>)
    ELSE LET t == Limb(a, i) + Limb(b, i) + carry
         IN  <<t % LimbBase>> \o AddFrom(a, b, i + 1, t \div LimbBase)

BigAdd(a, b) == AddFrom(a, b, 1, 0)

RECURSIVE SubFrom(_, _, _, _)
SubFrom(a, b, i, borrow) ==
    IF i > Len(a) THEN <<>>
    ELSE LET t == Limb(a, i) - Limb(b, i) - borrow
         IN  IF t < 0 THEN <<t + LimbBase>> \o SubFrom(a, b, i + 1, 1)
             ELSE <<t>> \o SubFrom(a, b, i + 1, 0)

\* a - b, for a >= b
BigSub(a, b) == Trim(SubFrom(a, b, 1, 0))

RECURSIVE CmpFrom(_, _, _)
CmpFrom(a, b, i) ==
    IF i = 0 THEN 0
    ELSE IF a[i] < b[i] THEN -1
    ELSE IF a[i] > b[i] THEN 1
    ELSE CmpFrom(a, b, i - 1)

\* -1, 0 or 1 as a is less than, equal to or greater than b
BigCmp(a, b) ==
    IF Len(a) < Len(b) THEN -1
    ELSE IF Len(a) > Len(b) THEN 1
    ELSE CmpFrom(a, b, Len(a))

RECURSIVE MulSmallFrom(_, _, _, _)
MulSmallFrom(a, k, i, carry) ==
    IF i > Len(a) THEN (IF carry = 0 THEN <<>> ELSE <<carry>>)
    ELSE LET t == a[i] * k + carry
         IN  <<t % LimbBase>> \o MulSmallFrom(a, k, i + 1, t \div LimbBase)

\* a * k, for a limb k
MulSmall(a, k) == IF k = 0 THEN <<>> ELSE MulSmallFrom(a, k, 1, 0)

\* a * LimbBase^n
ShiftLimbs(a, n) == IF a = <<>> THEN <<>> ELSE [i \in 1..n |-> 0] \o a

RECURSIVE BigMul(_, _)
BigMul(a, b) ==
    IF b = <<>> THEN <<>>
    ELSE BigAdd(MulSmall(a, b[1]), ShiftLimbs(BigMul(a, Tail(b)), 1))

\* a * 2^n
Shl(a, n) == ShiftLimbs(MulSmall(a, 2 ^ (n % LimbBits)), n \div LimbBits)

RECURSIVE SmallBitLen(_)
SmallBitLen(k) == IF k = 0 THEN 0 ELSE 1 + SmallBitLen(k \div 2)

\* the number of bits of a
BitLen(a) ==
    IF a = <<>> THEN 0 ELSE LimbBits * (Len(a) - 1) + SmallBitLen(a[Len(a)])

IsOdd(a) == a # <<>> /\ a[1] % 2 = 1

\* The value of a set of one element. A value that an operator uses more than
\* once is computed once and named by the bound variable of a set of one
\* element, { F(x) : x \in {value} }.
The(S) == CHOOSE x \in S : TRUE

\* the greatest limb k with k * d <= cur, for cur < LimbBase * d and a divisor
\* d whose top limb is at least LimbBase / 2: the quotient of the top limbs is
\* k, k + 1 or k + 2
Digit(cur, d) ==
    LET k0 == Min((Limb(cur, Len(d) + 1) * LimbBase + Limb(cur, Len(d))) \div d[Len(d)],
                  LimbBase - 1)
    IN  IF BigCmp(MulSmall(d, k0), cur) <= 0 THEN k0
        ELSE IF BigCmp(MulSmall(d, k0 - 1), cur) <= 0 THEN k0 - 1
        ELSE k0 - 2

\* long division by d of rem followed by the limbs i, i - 1, .. 1 of n, for
\* rem < d: the limbs of the quotient, the greatest first
RECURSIVE DivFrom(_, _, _, _)
DivFrom(n, d, i, rem) ==
    IF i = 0 THEN <<>>
    ELSE LET cur == Trim(<<n[i]>> \o rem)
             k   == Digit(cur, d)
         IN  <<k>> \o DivFrom(n, d, i - 1, BigSub(cur, MulSmall(d, k)))

Reverse(a) == [i \in 1..Len(a) |-> a[Len(a) + 1 - i]]

\* the quotient of n by d, for d > 0: both are scaled to bring the top limb of
\* the divisor to at least LimbBase / 2, and the division starts with the
\* limbs of n above its Len(n) - Len(d) + 1 lowest ones as rem
BigDiv(n, d) ==
    LET s  == LimbBits - SmallBitLen(d[Len(d)])
        n1 == Shl(n, s)
        d1 == Shl(d, s)
        i  == Len(n1) - Len(d1) + 1
    IN  IF i <= 0 THEN <<>>
        ELSE Trim(Reverse(DivFrom(n1, d1, i, Trim(SubSeq(n1, i + 1, Len(n1))))))

\* a float: not a number, or (-1)^neg * m * 2^e with m = 0 or m of 53 bits
NotANumber == [nan |-> TRUE, neg |-> FALSE, m |-> <<>>, e |-> 0]

Zero == [nan |-> FALSE, neg |-> FALSE, m |-> <<>>, e |-> 0]

IsFinite(x) == ~x.nan

\* the float (-1)^neg * q * 2^e, for q of at most 53 bits or q = 2^53
Pack(neg, q, e) ==
    IF BitLen(q) > MantissaBits
    THEN [nan |-> FALSE, neg |-> neg, m |-> Shl(Big(1), MantissaBits - 1), e |-> e + 1]
    ELSE [nan |-> FALSE, neg |-> neg, m |-> q, e |-> e]

\* q0 or q0 + 1, as the rest of the division is below, at or above the half of
\* the divisor (half is -1, 0 or 1): halves go to the even mantissa
Nearest(neg, q0, half, e) ==
    The({ Pack(neg, q, e) :
          q \in { IF half > 0 \/ (half = 0 /\ IsOdd(q0)) THEN BigAdd(q0, Big(1)) ELSE q0 } })

RoundRest(neg, q0, n, d, e) ==
    The({ Nearest(neg, q0, half, e) :
          half \in { BigCmp(Shl(BigSub(n, BigMul(q0, d)), 1), d) } })

\* the float nearest to n / d * 2^e, for a quotient of 53 bits
RoundQuotient(neg, n, d, e) ==
    The({ RoundRest(neg, q0, n, d, e) : q0 \in { BigDiv(n, d) } })

\* the same for a quotient of 53 or 54 bits (wide)
RoundWide(neg, n, d, e, wide) ==
    The({ RoundQuotient(neg, n, d2, e2) :
          d2 \in { IF wide THEN Shl(d, 1) ELSE d }, e2 \in { IF wide THEN e + 1 ELSE e } })

RoundScaled(neg, n, d, e) ==
    The({ RoundWide(neg, n, d, e, wide) : wide \in { BigCmp(n, Shl(d, MantissaBits)) >= 0 } })

\* n / d is scaled by 2^t to a quotient of 53 or 54 bits
RoundShift(neg, n, d, e0, t) ==
    The({ RoundScaled(neg, n1, d1, e0 - t) :
          n1 \in { IF t >= 0 THEN Shl(n, t) ELSE n },
          d1 \in { IF t < 0 THEN Shl(d, 0 - t) ELSE d } })

\* the float nearest to n / d * 2^e0, halves to the even mantissa
Round(neg, n, d, e0) ==
    IF n = <<>> THEN Zero
    ELSE The({ RoundShift(neg, n, d, e0, t) :
               t \in { MantissaBits - (BitLen(n) - BitLen(d)) } })

\* the float of the decimal n / d
Dec(n, d) == Round(n < 0, Big(Abs(n)), Big(d), 0)

Neg(x) == IF x.m = <<>> THEN x ELSE [x EXCEPT !.neg = ~x.neg]

\* the sum of (-1)^xneg * mx * 2^e and (-1)^yneg * my * 2^e, where above says
\* that mx >= my
AddSigned(xneg, mx, yneg, my, e, above) ==
    The({ Round(IF xneg = yneg \/ above THEN xneg ELSE yneg, n, Big(1), e) :
          n \in { IF xneg = yneg THEN BigAdd(mx, my)
                  ELSE IF above THEN BigSub(mx, my)
                  ELSE BigSub(my, mx) } })

AddAligned(xneg, mx, yneg, my, e) ==
    The({ AddSigned(xneg, mx, yneg, my, e, above) : above \in { BigCmp(mx, my) >= 0 } })

AddAt(x, y, e) ==
    The({ AddAligned(x.neg, mx, y.neg, my, e) :
          mx \in { Shl(x.m, x.e - e) }, my \in { Shl(y.m, y.e - e) } })

\* x + y
FAdd(x, y) ==
    IF x.nan \/ y.nan THEN NotANumber
    ELSE IF x.m = <<>> THEN y
    ELSE IF y.m = <<>> THEN x
    ELSE AddAt(x, y, Min(x.e, y.e))

\* x - y
FSub(x, y) == FAdd(x, Neg(y))

\* x * y
FMul(x, y) ==
    IF x.nan \/ y.nan THEN NotANumber
    ELSE The({ Round(x.neg # y.neg, n, Big(1), x.e + y.e) : n \in { BigMul(x.m, y.m) } })

\* x / y; 0.0 / 0.0 is not a number (a column divides nothing else by 0.0:
\* when max - min is 0.0 every x - min is 0.0)
FDiv(x, y) ==
    IF x.nan \/ y.nan \/ y.m = <<>> THEN NotANumber
    ELSE Round(x.neg # y.neg, x.m, y.m, x.e - y.e)

\* -1, 0 or 1 as the magnitude of x is less than, equal to or greater than
\* that of y
MagnitudeCmp(x, y) ==
    BigCmp(Shl(x.m, x.e - Min(x.e, y.e)), Shl(y.m, y.e - Min(x.e, y.e)))

\* x <= y and x = y, false when a side is not a number
FLe(x, y) ==
    /\ IsFinite(x) /\ IsFinite(y)
    /\ IF x.neg # y.neg THEN x.neg
       ELSE IF x.neg THEN MagnitudeCmp(x, y) >= 0
       ELSE MagnitudeCmp(x, y) <= 0

FEq(x, y) ==
    IsFinite(x) /\ IsFinite(y) /\ x.neg = y.neg /\ MagnitudeCmp(x, y) = 0

MIN_SCALE == Dec(1, 10)

MAX_SCALE == Dec(1, 1)

rating_weight == Dec(7, 10)

price_weight == Dec(3, 10)

\* the literal 1.1 of the final score
InvertFrom == Dec(11, 10)

\* the float of a cell that holds a number of hundredths
FloatOfCell(v) == Dec(v, Scale)

\* lines 235-236 and 240-241:
\* MIN_SCALE + (MAX_SCALE - MIN_SCALE) * (x - min) / (max - min)
MinMaxScale(x, lo, hi) ==
    FAdd(MIN_SCALE, FDiv(FMul(FSub(MAX_SCALE, MIN_SCALE), FSub(x, lo)), FSub(hi, lo)))

\* VALUE_SCORE that adds the normalized price as it is
VALUE_SCOREPriceAsIs(norm_rating, norm_price) ==
    FAdd(FMul(norm_rating, rating_weight), FMul(norm_price, price_weight))

\* lines 244-245
VALUE_SCORE(norm_rating, norm_price) ==
    FAdd(FMul(norm_rating, rating_weight),
         FMul(FSub(InvertFrom, norm_price), price_weight))

\* dropna(subset=['Price', 'Rating'])
DropMissing(table) ==
    SelectSeq(table, LAMBDA row : row.Price.t # "nan" /\ row.Rating.t # "nan")

\* the least and the greatest of a column of numbers
ColumnMin(S) == CHOOSE x \in S : \A y \in S : x <= y

ColumnMax(S) == CHOOSE x \in S : \A y \in S : y <= x

\* most rows of a table given to the scorer
MaxRows == 3

\* the cells of the Price column of such a table: a missing price, 100.0,
\* 105.0 and 113.0
ScorePrices == { NaN, Num(10000), Num(10500), Num(11300) }

\* the cells of its Rating column: a missing rating, 7.0, 9.7 and 10.0
ScoreRatings == { NaN, Num(700), Num(970), Num(1000) }

\* the numbers among the cells of a column
CellNumbers(cells) == {c.v : c \in cells \ {NaN}}

\* lines 234-236 and 239-241, computed once for a value x of a column with the
\* least value lo and the greatest value hi of the column
norm_ratingOf ==
    [x \in CellNumbers(ScoreRatings), lo \in CellNumbers(ScoreRatings),
     hi \in CellNumbers(ScoreRatings) |->
        IF lo <= x /\ x <= hi
        THEN MinMaxScale(FloatOfCell(x), FloatOfCell(lo), FloatOfCell(hi))
        ELSE NotANumber]

norm_priceOf ==
    [x \in CellNumbers(ScorePrices), lo \in CellNumbers(ScorePrices),
     hi \in CellNumbers(ScorePrices) |->
        IF lo <= x /\ x <= hi
        THEN MinMaxScale(FloatOfCell(x), FloatOfCell(lo), FloatOfCell(hi))
        ELSE NotANumber]

\* lines 244-245, computed once per pair of normalized values
VALUE_SCOREOf ==
    [nr \in {norm_ratingOf[t] : t \in DOMAIN norm_ratingOf},
     np \in {norm_priceOf[t] : t \in DOMAIN norm_priceOf} |-> VALUE_SCORE(nr, np)]

\* lines 224-247, for a table whose Price and Rating cells are numbers or missing
calculate_hotel_value_score(table) ==
    LET kept    == DropMissing(table)
        ratings == {kept[k].Rating.v : k \in 1..Len(kept)}
        prices  == {kept[k].Price.v : k \in 1..Len(kept)}
        r_min   == ColumnMin(ratings)
        r_max   == ColumnMax(ratings)
        p_min   == ColumnMin(prices)
        p_max   == ColumnMax(prices)
    IN  [k \in 1..Len(kept) |->
            LET norm_rating == norm_ratingOf[kept[k].Rating.v, r_min, r_max]
                norm_price  == norm_priceOf[kept[k].Price.v, p_min, p_max]
            IN  [ Hotel_Name  |-> kept[k].Hotel_Name,
                  Price       |-> kept[k].Price,
                  Rating      |-> kept[k].Rating,
                  norm_rating |-> norm_rating,
                  norm_price  |-> norm_price,
                  VALUE_SCORE |-> VALUE_SCOREOf[norm_rating, norm_price] ]]

\* the table of the rows with the cells f[1], f[2], ..; a row is named after
\* its place
ScoreTable(f) ==
    [k \in DOMAIN f |-> [Hotel_Name |-> k, Price |-> f[k][1], Rating |-> f[k][2]]]

\* the scorer is given a table of at most MaxRows rows
InitScore ==
    /\ \E n \in 0..MaxRows :
           \E f \in [1..n -> ScorePrices \X ScoreRatings] : df = ScoreTable(f)
    /\ processed_df = <<>>
    /\ pc = "score"
    /\ df_a = <<>>
    /\ df_b = <<>>
    /\ b_norm_list = <<>>
    /\ row_pos = 0
    /\ results = <<>>
    /\ matched_indices_a = {}
    /\ matched_indices_b = {}
    /\ df_master = <<>>
    /\ raw_name = <<>>
    /\ normalized = <<>>
    /\ renormalized = <<>>
    /\ FilterIdle
    /\ NumericIdle
    /\ CrawlIdle

\* lines 217-247: the table is scored
Score ==
    /\ pc = "score"
    /\ processed_df' = calculate_hotel_value_score(df)
    /\ pc' = "scored"
    /\ UNCHANGED << df, system_vars, norm_vars, other_vars >>

NextScore == Score

SpecScore == InitScore /\ [][NextScore]_vars

\* the numbers of a column of the scored table
ScoredRatings == {processed_df[k].Rating.v : k \in 1..Len(processed_df)}

ScoredPrices == {processed_df[k].Price.v : k \in 1..Len(processed_df)}

\* the scored set has rows, and neither its ratings nor its prices are all equal
NonDegenerate ==
    /\ pc = "scored"
    /\ Cardinality(ScoredRatings) > 1
    /\ Cardinality(ScoredPrices) > 1

\* C18: when all the ratings of a scored set are equal every row has the
\* normalized rating 1.0, when all its prices are equal every row has the
\* normalized price 1.0, and in both cases every row has a VALUE_SCORE that is
\* a number
C18_DegenerateGuarded ==
    (pc = "scored" /\ processed_df # <<>>) =>
        /\ Cardinality(ScoredRatings) = 1 =>
               \A k \in 1..Len(processed_df) :
                   /\ FEq(processed_df[k].norm_rating, Dec(1, 1))
                   /\ IsFinite(processed_df[k].VALUE_SCORE)
        /\ Cardinality(ScoredPrices) = 1 =>
               \A k \in 1..Len(processed_df) :
                   /\ FEq(processed_df[k].norm_price, Dec(1, 1))
                   /\ IsFinite(processed_df[k].VALUE_SCORE)

\* C19: in a set whose ratings are not all equal and whose prices are not all
\* equal, norm_rating and norm_price of every row lie in [0.1, 1.0] and its
\* VALUE_SCORE lies in [0.07, 1.0]
C19_ScoreBounds ==
    NonDegenerate =>
        \A k \in 1..Len(processed_df) :
            LET row == processed_df[k]
            IN  /\ FLe(Dec(1, 10), row.norm_rating) /\ FLe(row.norm_rating, Dec(1, 1))
                /\ FLe(Dec(1, 10), row.norm_price) /\ FLe(row.norm_price, Dec(1, 1))
                /\ FLe(Dec(7, 100), row.VALUE_SCORE) /\ FLe(row.VALUE_SCORE, Dec(1, 1))

\* the row has the lowest price and the highest rating of the scored set
BestDeal(row) ==
    /\ \A p \in ScoredPrices : row.Price.v <= p
    /\ \A r \in ScoredRatings : r <= row.Rating.v

\* C20 as stated: in a set whose ratings are not all equal and whose prices
\* are not all equal, a row with the lowest price and the highest rating has
\* the score 1.0, and no row has a higher score
C20_BestDealWins ==
    NonDegenerate =>
        \A k \in 1..Len(processed_df) :
            BestDeal(processed_df[k]) =>
                /\ FEq(processed_df[k].VALUE_SCORE, Dec(1, 1))
                /\ \A m \in 1..Len(processed_df) :
                       FLe(processed_df[m].VALUE_SCORE, processed_df[k].VALUE_SCORE)

\* 2^-52, the gap between 1.0 and the next float above it
Epsilon == Round(FALSE, Big(1), Big(1), 0 - 52)

\* C20, amended: in a set whose ratings are not all equal and whose prices are
\* not all equal, no row has a higher score than a row with the lowest price
\* and the highest rating, and the score of that row is at most 1.0 and at
\* least 1.0 - 2^-52 (0.9999999999999998)
C20_BestDealWinsRounded ==
    NonDegenerate =>
        \A k \in 1..Len(processed_df) :
            BestDeal(processed_df[k]) =>
                /\ FLe(processed_df[k].VALUE_SCORE, Dec(1, 1))
                /\ FLe(FSub(Dec(1, 1), Epsilon), processed_df[k].VALUE_SCORE)
                /\ \A m \in 1..Len(processed_df) :
                       FLe(processed_df[m].VALUE_SCORE, processed_df[k].VALUE_SCORE)

\* a row with the lowest price and the highest rating whose score is below
\* 1.0, next to a row of the same rating at a higher price and a row of a
\* lower rating
C20_Witness ==
    /\ NonDegenerate
    /\ \E k, m, n \in 1..Len(processed_df) :
           /\ BestDeal(processed_df[k])
           /\ ~FEq(processed_df[k].VALUE_SCORE, Dec(1, 1))
           /\ processed_df[m].Rating = processed_df[k].Rating
           /\ processed_df[m].Price.v > processed_df[k].Price.v
           /\ processed_df[n].Rating.v < processed_df[k].Rating.v

\* ------------------------------------------------------------------------
\* filter_business_logic and its place in run_unified_system
\* ------------------------------------------------------------------------

\* a limit that is not given
None == [t |-> "none", v |-> 0, s |-> <<>>]

\* bool(limit): None, the number 0 and the empty text are false
Truthy(limit) ==
    IF limit.t = "none" THEN FALSE
    ELSE IF limit.t = "num" THEN limit.v # 0
    ELSE limit.s # <<>>

\* str(limit).strip() is not empty; str() of a number is never blank
NotBlankText(limit) == limit.t = "num" \/ (limit.t = "str" /\ Strip(limit.s) # <<>>)

\* lines 202, 205, 208 and 211: the test that guards a limit
Applies(limit) == Truthy(limit) /\ NotBlankText(limit)

\* float(limit) accepts a number, and a text of digits with an optional point
\* and decimals, the spaces around it ignored; signs and exponents are not
\* modelled
CanFloat(limit) ==
    \/ limit.t = "num"
    \/ /\ limit.t = "str"
       /\ LET c     == Strip(limit.s)
              whole == DigitRun(c, 1)
              dot   == Len(whole) + 1
              frac  == IF dot <= Len(c) /\ c[dot] = "." THEN DigitRun(c, dot + 1) ELSE <<>>
              end   == IF dot <= Len(c) /\ c[dot] = "." THEN dot + Len(frac) ELSE Len(whole)
          IN  (whole # <<>> \/ frac # <<>>) /\ end = Len(c)

float(limit) ==
    IF limit.t = "num" THEN limit.v
    ELSE LET c     == Strip(limit.s)
             whole == DigitRun(c, 1)
             dot   == Len(whole) + 1
             frac  == IF dot <= Len(c) /\ c[dot] = "." THEN DigitRun(c, dot + 1) ELSE <<>>
         IN  FloatOf(whole, frac)

\* an exception leaves the function
Raised == [raised |-> TRUE, rows |-> <<>>]

\* df_filtered[df_filtered[column] <= float(limit)], or >= : float() of a text
\* that is no number raises ValueError, and the comparison of a text cell with
\* a number raises TypeError
Compare(rows, column, limit, upper) ==
    IF ~CanFloat(limit) \/ \E k \in 1..Len(rows) : rows[k][column].t = "str"
    THEN Raised
    ELSE [ raised |-> FALSE,
           rows   |-> SelectSeq(rows, LAMBDA row :
                          IF upper THEN row[column].v <= float(limit)
                                   ELSE row[column].v >= float(limit)) ]

\* lines 202-212: one guarded limit
ApplyLimit(r, column, limit, upper) ==
    IF r.raised \/ ~Applies(limit) THEN r ELSE Compare(r.rows, column, limit, upper)

\* line 199: the subset of dropna
Required == <<"Price", "Rating", "Reviews_Amount", "Distance">>

\* dropna over the columns of the scorer only
dropnaScored(table) ==
    SelectSeq(table, LAMBDA row : row.Price.t # "nan" /\ row.Rating.t # "nan")

\* line 199: the rows with no missing value in the required columns
dropna(table) ==
    SelectSeq(table, LAMBDA row : \A k \in 1..Len(Required) : row[Required[k]].t # "nan")

\* lines 191-214
filter_business_logic(table, price_limit, rating_limit, review_limit, distance_limit) ==
    ApplyLimit(
        ApplyLimit(
            ApplyLimit(
                ApplyLimit([raised |-> FALSE, rows |-> dropna(table)],
                           "Price", price_limit, TRUE),
                "Rating", rating_limit, FALSE),
            "Reviews_Amount", review_limit, FALSE),
        "Distance", distance_limit, TRUE)

\* lines 226-241 on a table with a text in a scored column: min() of a column
\* of texts and numbers raises TypeError, and so does the difference of texts
ScoreRaises(table) ==
    \E k \in 1..Len(table) :
        /\ table[k].Price.t # "nan" /\ table[k].Rating.t # "nan"
        /\ table[k].Price.t = "str" \/ table[k].Rating.t = "str"

\* most rows of a master table given to the filter
MaxFilterRows == 2

\* the cells of the master tables given to the filter
FilterPrices == { Num(10000), Num(11300) }

FilterRatings == { Num(700), Num(1000), Str(<<"N", "/", "A">>) }

FilterReviews == { NaN, Num(5000) }

FilterDistances == { Num(100), Num(300) }

\* the limits: not given, ENTER pressed, numbers and texts
PriceLimits ==
    { None, Str(<<>>), Num(0), Str(<<"0">>), Str(<<"1", "0", "5">>) }

RatingLimits == { None, Num(800) }

ReviewLimits == { None, Str(<<"6", "0">>) }

DistanceLimits == { None, Str(<<"2">>) }

\* the master table of the rows with the cells f[1], f[2], ..; a row is named
\* after its place
FilterTable(f) ==
    [k \in DOMAIN f |->
        [ Hotel_Name     |-> k,
          Price          |-> f[k][1],
          Rating         |-> f[k][2],
          Reviews_Amount |-> f[k][3],
          Distance       |-> f[k][4] ]]

\* run_unified_system has a master table and the four limits
InitFilter ==
    /\ \E n \in 0..MaxFilterRows :
           \E f \in [1..n -> FilterPrices \X FilterRatings \X FilterReviews \X FilterDistances] :
               df_master = FilterTable(f)
    /\ limits \in [ price_limit    : PriceLimits,
                    rating_limit   : RatingLimits,
                    review_limit   : ReviewLimits,
                    distance_limit : DistanceLimits ]
    /\ df_final = <<>>
    /\ INDEXED_DF = <<>>
    /\ pc = "filter"
    /\ df_a = <<>>
    /\ df_b = <<>>
    /\ b_norm_list = <<>>
    /\ row_pos = 0
    /\ results = <<>>
    /\ matched_indices_a = {}
    /\ matched_indices_b = {}
    /\ raw_name = <<>>
    /\ normalized = <<>>
    /\ renormalized = <<>>
    /\ df = <<>>
    /\ processed_df = <<>>
    /\ NumericIdle
    /\ CrawlIdle

\* main.py line 117: the master table is filtered; an exception is caught at
\* line 147 and ends the run
Filter ==
    /\ pc = "filter"
    /\ LET r == filter_business_logic(df_master, limits.price_limit, limits.rating_limit,
                                      limits.review_limit, limits.distance_limit)
       IN  IF r.raised
           THEN pc' = "raised" /\ df_final' = df_final
           ELSE pc' = "filtered" /\ df_final' = r.rows
    /\ UNCHANGED << limits, INDEXED_DF, system_vars, norm_vars, score_vars,
                    numeric_vars, crawl_vars >>

\* main.py line 125: the filtered table is scored; an exception is caught at
\* line 147 and ends the run
ScoreFinal ==
    /\ pc = "filtered"
    /\ IF ScoreRaises(df_final)
       THEN pc' = "raised" /\ INDEXED_DF' = INDEXED_DF
       ELSE pc' = "indexed" /\ INDEXED_DF' = calculate_hotel_value_score(df_final)
    /\ UNCHANGED << limits, df_final, system_vars, norm_vars, score_vars,
                    numeric_vars, crawl_vars >>

NextFilter == Filter \/ ScoreFinal

SpecFilter == InitFilter /\ [][NextFilter]_vars

\* ------------------------------------------------------------------------
\* the claims on filter_business_logic
\* ------------------------------------------------------------------------

\* a limit that is not supplied: None, or a text that is blank
Omitted(limit) == limit.t = "none" \/ (limit.t = "str" /\ Strip(limit.s) = <<>>)

NoLimit ==
    /\ Omitted(limits.price_limit) /\ Omitted(limits.rating_limit)
    /\ Omitted(limits.review_limit) /\ Omitted(limits.distance_limit)

\* the four required fields of a row are present
Present(row) ==
    row.Price # NaN /\ row.Rating # NaN /\ row.Reviews_Amount # NaN /\ row.Distance # NaN

\* the places of the master table whose row has the four fields
PresentRows == {i \in 1..Len(df_master) : Present(df_master[i])}

\* the j-th least of a set of places
Nth(S, j) == CHOOSE i \in S : Cardinality({m \in S : m <= i}) = j

\* C21: with no limit supplied the filter returns the rows of its input that
\* have the four required fields, unchanged and in the order of the input; a
\* row is dropped exactly when one of the four is missing
C21_NoLimitKeepsPresentRows ==
    (pc # "filter" /\ NoLimit) =>
        /\ Len(df_final) = Cardinality(PresentRows)
        /\ \A j \in 1..Len(df_final) : df_final[j] = df_master[Nth(PresentRows, j)]

\* no limit, a row without reviews dropped and a row with a text rating kept
C21_Witness ==
    /\ pc = "filtered" /\ NoLimit
    /\ Len(df_master) = 2 /\ Len(df_final) = 1
    /\ df_master[1].Reviews_Amount = NaN
    /\ df_final[1] = df_master[2] /\ df_final[1].Rating.t = "str"

\* the number a supplied limit stands for; the texts of the limits are whole
\* numbers
LimitValue(limit) ==
    IF limit.t = "num" THEN limit.v ELSE IntOf(Strip(limit.s)) * Scale

\* a cell is within a limit: an omitted limit admits every cell, a supplied
\* one the numbers on its side
AtMost(cell, limit) ==
    Omitted(limit) \/ (cell.t = "num" /\ cell.v <= LimitValue(limit))

AtLeast(cell, limit) ==
    Omitted(limit) \/ (cell.t = "num" /\ cell.v >= LimitValue(limit))

WithinLimits(row) ==
    /\ AtMost(row.Price, limits.price_limit)
    /\ AtLeast(row.Rating, limits.rating_limit)
    /\ AtLeast(row.Reviews_Amount, limits.review_limit)
    /\ AtMost(row.Distance, limits.distance_limit)

\* C22: when the filter returns, every row of the output is within every limit
\* supplied, be it a text or a number and whatever its value, 0 included, and
\* every row of the input that has the four fields and is within the supplied
\* limits is in the output
C22_SuppliedLimitsApplied ==
    pc \in {"filtered", "indexed"} =>
        /\ \A j \in 1..Len(df_final) : WithinLimits(df_final[j])
        /\ \A i \in PresentRows :
               WithinLimits(df_master[i]) =>
                   \E j \in 1..Len(df_final) : df_final[j] = df_master[i]

\* C22 for the limits that are not the number 0
C22_ExceptNumberZero ==
    (\A n \in DOMAIN limits : limits[n] # Num(0)) => C22_SuppliedLimitsApplied

\* the cells a limit or the scorer computes with are numbers
Numeric(row) ==
    /\ row.Price.t = "num" /\ row.Rating.t = "num"
    /\ row.Reviews_Amount.t = "num" /\ row.Distance.t = "num"

\* C23: a row that cannot be filtered or scored, such as one whose rating is a
\* text, is left out and nothing else: the run is not ended by it, and every
\* other row that has the four fields and is within the limits is scored
C23_RowFailureIsolated ==
    /\ pc # "raised"
    /\ pc = "indexed" =>
           /\ \A k \in 1..Len(INDEXED_DF) : INDEXED_DF[k].Rating.t = "num"
           /\ \A i \in PresentRows :
                  (Numeric(df_master[i]) /\ WithinLimits(df_master[i])) =>
                      \E k \in 1..Len(INDEXED_DF) : INDEXED_DF[k].Hotel_Name = i

\* ------------------------------------------------------------------------
\* the claim on empty input tables
\* ------------------------------------------------------------------------

\* C24: a run whose primary or secondary table is empty does not come to a
\* normal end, neither of match_datasets nor of run_unified_system: it ends by
\* a failure that its caller sees
C24_EmptyInputFails ==
    (df_a = <<>> \/ df_b = <<>>) => pc \notin {"done", "no_matches", "master"}

\* ------------------------------------------------------------------------
\* extract_numeric on its own
\* ------------------------------------------------------------------------

\* the parts of the texts given to extract_numeric: what comes before the
\* number, its whole part, its decimals and what comes after it; a whole part
\* and the decimals come with the number they stand for, in hundredths
TextBefore == { <<>>, <<"$">>, <<"U", "S", "D", " ">> }

WholeParts ==
    { [text |-> <<>>, value |-> 0],
      [text |-> <<"0">>, value |-> 0],
      [text |-> <<"8", "5">>, value |-> 8500],
      [text |-> <<"1", ",", "2", "3", "4">>, value |-> 123400],
      [text |-> <<"1", "2", ",", "0", "0", "0">>, value |-> 1200000] }

Decimals ==
    { [text |-> <<>>, value |-> 0],
      [text |-> <<".", "5">>, value |-> 50],
      [text |-> <<".", "5", "6">>, value |-> 56] }

TextAfter == { <<>>, <<" ", "k", "m">>, <<" ", "x", "2">> }

NumericParts == TextBefore \X WholeParts \X Decimals \X TextAfter

TextOf(parts) == parts[1] \o parts[2].text \o parts[3].text \o parts[4]

\* the cells given to extract_numeric: a missing value, numbers and texts
NumericInputs ==
    { NaN, Num(0), Num(8550), Num(0 - 500), Str(<<"N", "/", "A">>) }
    \cup { Str(TextOf(parts)) : parts \in NumericParts }

InitNumeric ==
    /\ raw_val \in NumericInputs
    /\ extracted = 0
    /\ pc = "numeric"
    /\ df_a = <<>>
    /\ df_b = <<>>
    /\ b_norm_list = <<>>
    /\ row_pos = 0
    /\ results = <<>>
    /\ matched_indices_a = {}
    /\ matched_indices_b = {}
    /\ df_master = <<>>
    /\ raw_name = <<>>
    /\ normalized = <<>>
    /\ renormalized = <<>>
    /\ df = <<>>
    /\ processed_df = <<>>
    /\ FilterIdle
    /\ CrawlIdle

\* lines 34-56 applied to the cell
Extract ==
    /\ pc = "numeric"
    /\ extracted' = extract_numeric(raw_val)
    /\ pc' = "extracted"
    /\ UNCHANGED << raw_val, system_vars, norm_vars, score_vars, filter_vars, crawl_vars >>

NextNumeric == Extract

SpecNumeric == InitNumeric /\ [][NextNumeric]_vars

\* C25: extract_numeric returns a number for every cell: 0.0 for a missing
\* value and for a text without a digit, the number itself for a number, and
\* for a text with a currency sign and thousands separators the first decimal
\* number of the text, the separators left out
C25_ExtractNumericTotal ==
    pc = "extracted" =>
        /\ extracted \in Int
        /\ raw_val = NaN => extracted = 0
        /\ raw_val.t = "num" => extracted = raw_val.v
        /\ (raw_val.t = "str" /\ \A k \in 1..Len(raw_val.s) : ~IsDigit(raw_val.s[k]))
               => extracted = 0
        /\ \A parts \in NumericParts :
               (raw_val = Str(TextOf(parts)) /\ parts[2].text # <<>>)
                   => extracted = parts[2].value + parts[3].value

\* '$1,234.56' gave 1234.56
C25_Witness ==
    /\ pc = "extracted"
    /\ raw_val = Str(<<"$", "1", ",", "2", "3", "4", ".", "5", "6">>)
    /\ extracted = 123456

\* ------------------------------------------------------------------------
\* the claim on the last branch of the selection
\* ------------------------------------------------------------------------

\* C26: for every row of df_a that has candidates, the third tier is the whole
\* list of candidates, so one of the three tiers is not empty and the winner
\* comes from a tier, never from the last branch of lines 120-121
C26_FallbackUnreachable ==
    pc = "loop" =>
        \A i \in 0..(Len(df_a) - 1) :
            LET v == valid_matches_info(RowA(i))
            IN  v # <<>> =>
                    /\ Tier3(v) = Enumerate(v)
                    /\ Tier1(v) # <<>> \/ Tier2(v) # <<>> \/ Tier3(v) # <<>>
                    /\ \E k \in 1..Len(Tier3(v)) : Tier3(v)[k] = best_ref(v)

\* a row was matched whose candidates are in the third tier only
C26_Witness ==
    /\ pc = "loop"
    /\ \E i \in 0..(row_pos - 1) :
           LET v == valid_matches_info(RowA(i))
           IN  /\ v # <<>> /\ Tier1(v) = <<>> /\ Tier2(v) = <<>>
               /\ i \in matched_indices_a

\* ------------------------------------------------------------------------
\* run_adaptive_search of the Booking engine: the loop over the result pages
\* ------------------------------------------------------------------------

\* most pages requested in a run of the model, and most results of a page
MaxPages == 4

MaxPageLen == 2

\* line 103: rowsPerPage
RowsPerPage == 50

\* the ids of the hotels; a result without an id (None, 0 or '') has NoId
HotelIds == {1, 2, 3}

NoId == 0

\* a result of a page: its id, and whether its fields can be read
\* (displayName or location that is null makes lines 128 and 149 raise)
Hotels == [id : HotelIds \cup {NoId}, readable : BOOLEAN]

\* the non-empty result lists
Pages == UNION { [1..n -> Hotels] : n \in 1..MaxPageLen }

\* line 123 with only the test of the ids met before
SkippedWhenSeen(h_id, seen) == h_id \in seen

\* line 123: if not h_id or h_id in seen_hotel_ids: continue
Skipped(h_id, seen) == h_id = NoId \/ h_id \in seen

\* lines 119-152: the results of a page from the k-th on; a result that cannot
\* be read ends the loop by an exception, after its id was added to the set
RECURSIVE ScanFrom(_, _, _)
ScanFrom(page, k, acc) ==
    IF k > Len(page) THEN acc
    ELSE IF Skipped(page[k].id, acc.seen) THEN ScanFrom(page, k + 1, acc)
    ELSE IF ~page[k].readable
         THEN [ acc EXCEPT !.seen = acc.seen \cup {page[k].id},
                           !.new = acc.new + 1,
                           !.failed = TRUE ]
         ELSE ScanFrom(page, k + 1,
                  [ acc EXCEPT !.seen = acc.seen \cup {page[k].id},
                               !.new = acc.new + 1,
                               !.rows = Append(acc.rows, [id |-> page[k].id]) ])

\* line 93: the limit on the pages, when there is one, is passed
LimitPassed == pages_to_scan # 0 /\ page_number > pages_to_scan

InitCrawl ==
    /\ pages_to_scan \in 0..MaxPages
    /\ seen_hotel_ids = {}
    /\ data_for_export = <<>>
    /\ current_offset = 0
    /\ page_number = 1
    /\ consecutive_empty_pages = 0
    /\ pc = "crawl"
    /\ df_a = <<>>
    /\ df_b = <<>>
    /\ b_norm_list = <<>>
    /\ row_pos = 0
    /\ results = <<>>
    /\ matched_indices_a = {}
    /\ matched_indices_b = {}
    /\ df_master = <<>>
    /\ raw_name = <<>>
    /\ normalized = <<>>
    /\ renormalized = <<>>
    /\ df = <<>>
    /\ processed_df = <<>>
    /\ FilterIdle
    /\ NumericIdle

\* lines 93-94: the limit is passed and the loop ends
LimitReached ==
    /\ pc = "crawl"
    /\ LimitPassed
    /\ pc' = "returned"
    /\ UNCHANGED << system_vars, norm_vars, score_vars, filter_vars, numeric_vars, crawl_vars >>

\* lines 110-116 and 165-167: the request fails, or it brings no results; the
\* loop ends
NoResults ==
    /\ pc = "crawl"
    /\ ~LimitPassed
    /\ page_number <= MaxPages
    /\ pc' = "returned"
    /\ UNCHANGED << system_vars, norm_vars, score_vars, filter_vars, numeric_vars, crawl_vars >>

\* lines 110-167: a page of results is requested and scanned; the counter of
\* the pages without a new id is brought up to date and the loop ends at three,
\* or an exception ends it
ProcessPage ==
    /\ pc = "crawl"
    /\ ~LimitPassed
    /\ page_number <= MaxPages
    /\ \E page \in Pages :
           LET r == ScanFrom(page, 1, [ seen |-> seen_hotel_ids, rows |-> data_for_export,
                                        new |-> 0, failed |-> FALSE ])
               empty == IF r.new = 0 THEN consecutive_empty_pages + 1 ELSE 0
           IN  /\ seen_hotel_ids' = r.seen
               /\ data_for_export' = r.rows
               /\ IF r.failed
                  THEN /\ pc' = "returned"
                       /\ UNCHANGED << consecutive_empty_pages, current_offset, page_number >>
                  ELSE /\ consecutive_empty_pages' = empty
                       /\ IF empty >= 3
                          THEN pc' = "returned" /\ UNCHANGED << current_offset, page_number >>
                          ELSE /\ pc' = "crawl"
                               /\ current_offset' = current_offset + RowsPerPage
                               /\ page_number' = page_number + 1
    /\ UNCHANGED << pages_to_scan, system_vars, norm_vars, score_vars, filter_vars, numeric_vars >>

NextCrawl == LimitReached \/ NoResults \/ ProcessPage

SpecCrawl == InitCrawl /\ [][NextCrawl]_vars

\* ------------------------------------------------------------------------
\* the claim on the loop over the result pages
\* ------------------------------------------------------------------------

\* no id is exported twice and no row is exported for a result without an id
ExportedOnce ==
    /\ \A i, j \in 1..Len(data_for_export) :
           data_for_export[i].id = data_for_export[j].id => i = j
    /\ \A i \in 1..Len(data_for_export) :
           data_for_export[i].id # NoId /\ data_for_export[i].id \in seen_hotel_ids

\* a step in which a page of results was scanned to its end
PageScanned ==
    /\ pc = "crawl"
    /\ \/ page_number' = page_number + 1
       \/ consecutive_empty_pages' # consecutive_empty_pages

\* the counter after a page: one more when the page added no id, 0 when it
\* added one
CounterFollowsPage ==
    PageScanned =>
        /\ seen_hotel_ids' = seen_hotel_ids
               => consecutive_empty_pages' = consecutive_empty_pages + 1
        /\ seen_hotel_ids' # seen_hotel_ids => consecutive_empty_pages' = 0

\* after three pages in a row without a new id no page is requested: the loop
\* has ended, and the page number and the offset stay
StopsAtThree ==
    /\ consecutive_empty_pages' >= 3 =>
           pc' = "returned" /\ page_number' = page_number /\ current_offset' = current_offset
    /\ pc = "returned" =>
           /\ seen_hotel_ids' = seen_hotel_ids
           /\ data_for_export' = data_for_export
           /\ page_number' = page_number

====
